---- MODULE Spec2Model ----
(***************************************************************************)
(* Model of PauperBatchLeagues_API.py: the module-level configuration      *)
(* check, setup_driver, get_deck_id, load_page_with_retries,               *)
(* scrape_challenge_for_date and main (league loop, challenge loop,        *)
(* summary, except/finally).                                               *)
(*                                                                         *)
(* Strings the code computes on (link targets, deck urls) are sequences of *)
(* one-character strings.  Calendar dates are day ordinals of the year     *)
(* 2024 (1 = 2024-01-01); strftime / isoformat are DateStr.                *)
(***************************************************************************)
EXTENDS Integers, Sequences, FiniteSets, TLC

\* ------------------------------------------------------------------ bounds
\* Largest number of <tr> rows of a result table the site serves.
MaxRows == 2
\* Largest value of the CHALLENGE_LOOKBACK_DAYS environment setting.
MaxLookback == 2
\* How many times midnight may pass while the league loop runs.
MaxTicks == 1
\* Cap of the rows-inserted counters: the sink accepts a batch only while
\* the rows it has accepted in the run stay within it.
MaxInserted == 2
\* The day the run starts on: ordinal 70 of 2024 is 2024-03-10.
StartDay == 70

\* ------------------------------------------------------- program constants
\* timedelta(days=6): the league window reaches back 6 days from today.
LeagueBackDays == 6
\* load_page_with_retries(..., max_retries=2, ...) at both call sites.
max_retries == 2
\* len(TOURNAMENT_URL_TEMPLATES)
NumTemplates == 3
\* if resp.status_code in (200, 201, 204)
OkStatuses == {200, 201, 204}

\* "https://www.mtggoldfish.com", the prefix of every deck_url.
Origin ==
  << "h","t","t","p","s",":","/","/","w","w","w",".","m","t","g","g","o","l",
     "d","f","i","s","h",".","c","o","m" >>

\* ------------------------------------------------------------ calendar
MonthLen == << 31, 29, 31, 30, 31, 30, 31, 31, 30, 31, 30, 31 >>

RECURSIVE MonthDay(_, _)
MonthDay(m, d) ==
  IF m < 12 /\ d > MonthLen[m] THEN MonthDay(m + 1, d - MonthLen[m])
  ELSE << m, d >>

\* current_date.strftime("%Y-%m-%d") and current_day.isoformat(): the
\* year, month and day of a day ordinal of 2024.
DateStr(n) == << 2024, MonthDay(1, n)[1], MonthDay(1, n)[2] >>

\* ------------------------------------------------------------ strings
Digits == { "0", "1", "2", "3", "4", "5", "6", "7", "8", "9" }

DigitVal(c) ==
  CASE c = "0" -> 0 [] c = "1" -> 1 [] c = "2" -> 2 [] c = "3" -> 3
    [] c = "4" -> 4 [] c = "5" -> 5 [] c = "6" -> 6 [] c = "7" -> 7
    [] c = "8" -> 8 [] c = "9" -> 9

\* The index of the first element of s that is in set cs, or Len(s)+1.
RECURSIVE FirstOf(_, _, _)
FirstOf(s, cs, i) ==
  IF i > Len(s) THEN Len(s) + 1
  ELSE IF s[i] \in cs THEN i
  ELSE FirstOf(s, cs, i + 1)

HasPrefix(s, p) == Len(s) >= Len(p) /\ SubSeq(s, 1, Len(p)) = p

\* urlparse(url).path for an url of scheme https: the scheme is removed,
\* a leading "//" starts the network location, which ends before the first
\* of "/", "?", "#"; the path ends before the first of "?", "#".
UrlPath(url) ==
  LET noScheme == IF HasPrefix(url, << "h","t","t","p","s",":" >>)
                  THEN SubSeq(url, 7, Len(url)) ELSE url
      afterLoc == IF HasPrefix(noScheme, << "/", "/" >>)
                  THEN LET rest == SubSeq(noScheme, 3, Len(noScheme))
                       IN  SubSeq(rest, FirstOf(rest, {"/", "?", "#"}, 1), Len(rest))
                  ELSE noScheme
  IN  SubSeq(afterLoc, 1, FirstOf(afterLoc, {"?", "#"}, 1) - 1)

\* str.rstrip("/")
RECURSIVE RStripSlash(_)
RStripSlash(s) ==
  IF Len(s) > 0 /\ s[Len(s)] = "/" THEN RStripSlash(SubSeq(s, 1, Len(s) - 1))
  ELSE s

\* str.split("/")[-1]: what follows the last "/" (the whole string if none).
RECURSIVE LastSegment(_)
LastSegment(s) ==
  IF Len(s) = 0 THEN << >>
  ELSE IF s[Len(s)] = "/" THEN << >>
  ELSE Append(LastSegment(SubSeq(s, 1, Len(s) - 1)), s[Len(s)])

\* str.isdigit(): non-empty and every character a digit.
IsDigit(s) == Len(s) > 0 /\ \A i \in 1..Len(s) : s[i] \in Digits

\* int(s) of a digit string.
RECURSIVE ToInt(_)
ToInt(s) ==
  IF Len(s) = 0 THEN 0
  ELSE 10 * ToInt(SubSeq(s, 1, Len(s) - 1)) + DigitVal(s[Len(s)])

\* get_deck_id's "return None": a value that is no deck id.
None == -1

get_deck_id(deck_url) ==
  LET path_last == LastSegment(RStripSlash(UrlPath(deck_url)))
  IN  IF IsDigit(path_last) THEN ToInt(path_last) ELSE None

\* ------------------------------------------------------------ site content
\* A string literal as the sequence of its characters.
HrefDeck123456 == << "/","d","e","c","k","/","1","2","3","4","5","6" >>
HrefDeckAbc == << "/","d","e","c","k","/","a","b","c","#","o","n","l","i","n","e" >>
HrefAbsolute ==
  << "h","t","t","p","s",":","/","/","x",".","y","/","d","e","c","k","/","7","7","/",
     "#","o","n","l","i","n","e" >>

\* One <tr>: the number of its <td> cells, the stripped texts of the first
\* three cells, and the first <a> of the second cell (whether there is one,
\* whether it has an href attribute, and the attribute's value).
MkRow(n, place, name, pilot, a, h, target) ==
  [ ncols |-> n, place |-> place, deck_name |-> name, pilot |-> pilot,
    has_a |-> a, has_href |-> h, href |-> target ]

\* The rows the site serves in a result table.
SiteRows ==
  { MkRow(3, "1st", "Mono Red Goblins", "alice", TRUE, TRUE, HrefDeck123456),
    MkRow(3, "2nd", "Elves", "carol", TRUE, TRUE, HrefDeckAbc),
    MkRow(2, "3rd", "Burn", "", TRUE, TRUE, HrefDeck123456),
    MkRow(3, "4th", "Familiars", "dave", FALSE, FALSE, << >>),
    MkRow(3, "5th", "Tron", "erin", TRUE, FALSE, << >>),
    MkRow(4, "5-0", "Affinity", "", TRUE, TRUE, HrefAbsolute) }

\* get_deck_id of the deck urls the rows of the site give (lines 162 and
\* 254), computed once.
deck_ids == [ u \in { Origin \o r.href : r \in SiteRows } |-> get_deck_id(u) ]

RowSeqs == UNION { [1..n -> SiteRows] : n \in 0..MaxRows }

\* What BeautifulSoup finds in a loaded page: no table of class
\* table-tournament, a table without <tbody>, or the <tr> rows of the tbody.
NoTablePage == [ table |-> "absent", rows |-> << >> ]
NoTbodyPage == [ table |-> "nobody", rows |-> << >> ]
Pages == { NoTablePage, NoTbodyPage } \cup { [ table |-> "rows", rows |-> rs ] : rs \in RowSeqs }

\* No page in hand (nothing fetched, or the fetch failed).
NoPage == [ table |-> "none", rows |-> << >> ]

\* ------------------------------------------------------------ row normalization
\* As LeagueRow, without "if deck_id is None: continue".
LeagueRow_NoIdCheck(row, date_str) ==
  IF row.ncols < 3 THEN << >>
  ELSE IF ~row.has_a \/ ~row.has_href THEN << >>
  ELSE LET deck_url == Origin \o row.href
       IN  << [ id |-> get_deck_id(deck_url), event_date |-> date_str,
                place |-> row.place, deck_name |-> row.deck_name,
                pilot |-> row.pilot, deck_url |-> deck_url ] >>

\* main, the body of "for row in rows" (league): the records the row adds
\* to payload, << >> when one of the three "continue" is taken.
LeagueRow(row, date_str) ==
  IF row.ncols < 3 THEN << >>
  ELSE IF ~row.has_a \/ ~row.has_href THEN << >>
  ELSE LET deck_url == Origin \o row.href
           deck_id == deck_ids[deck_url]
       IN  IF deck_id = None THEN << >>
           ELSE << [ id |-> deck_id, event_date |-> date_str, place |-> row.place,
                     deck_name |-> row.deck_name, pilot |-> row.pilot,
                     deck_url |-> deck_url ] >>

\* As ChallengeRow, with "len(cols) < 2" for "len(cols) < 3".
ChallengeRow_TwoCells(row, date_str) ==
  IF row.ncols < 2 THEN << >>
  ELSE IF ~row.has_a \/ ~row.has_href THEN << >>
  ELSE LET deck_url == Origin \o row.href
           deck_id == get_deck_id(deck_url)
       IN  IF deck_id = None THEN << >>
           ELSE << [ deck_id |-> deck_id, date |-> date_str, place |-> row.place,
                     deck_name |-> row.deck_name, pilot |-> row.pilot,
                     json_decklist |-> None ] >>

\* scrape_challenge_for_date, the body of "for row in rows".
ChallengeRow(row, date_str) ==
  IF row.ncols < 3 THEN << >>
  ELSE IF ~row.has_a \/ ~row.has_href THEN << >>
  ELSE LET deck_url == Origin \o row.href
           deck_id == deck_ids[deck_url]
       IN  IF deck_id = None THEN << >>
           ELSE << [ deck_id |-> deck_id, date |-> date_str, place |-> row.place,
                     deck_name |-> row.deck_name, pilot |-> row.pilot,
                     json_decklist |-> None ] >>

\* As LeaguePayload, with "break" for the "continue" of an invalid row.
RECURSIVE LeaguePayload_Break(_, _)
LeaguePayload_Break(rows, date_str) ==
  IF rows = << >> THEN << >>
  ELSE IF LeagueRow(Head(rows), date_str) = << >> THEN << >>
  ELSE LeagueRow(Head(rows), date_str) \o LeaguePayload_Break(Tail(rows), date_str)

\* payload after the league "for row in rows" loop.
RECURSIVE LeaguePayload(_, _)
LeaguePayload(rows, date_str) ==
  IF rows = << >> THEN << >>
  ELSE LeagueRow(Head(rows), date_str) \o LeaguePayload(Tail(rows), date_str)

\* records after the challenge "for row in rows" loop.
RECURSIVE ChallengeRecords(_, _)
ChallengeRecords(rows, date_str) ==
  IF rows = << >> THEN << >>
  ELSE ChallengeRow(Head(rows), date_str) \o ChallengeRecords(Tail(rows), date_str)

\* ------------------------------------------------------------ page fetcher
\* What one driver.get(url) does: returns with the page of a 2xx response
\* loaded, returns with the page of a non-2xx response (a 404 page) loaded,
\* raises TimeoutException, or raises another WebDriverException.
AttemptOutcomes == { "ok", "status404", "timeout", "error" }

\* The outcomes with which driver.get returns: it returns None whatever the
\* HTTP status of the response, which Selenium does not report.
Returned == { "ok", "status404" }

\* As LoadLoop, with "return False" at the first timeout.
LoadLoop_NoRetry(outs, retries, retry_count, printed) ==
  IF ~(retry_count < retries) THEN
    [ ret |-> "False", attempts |-> retry_count, log |-> printed ]
  ELSE IF outs[retry_count + 1] \in Returned THEN
    [ ret |-> "True", attempts |-> retry_count + 1, log |-> printed ]
  ELSE IF outs[retry_count + 1] = "error" THEN
    [ ret |-> "raise", attempts |-> retry_count + 1, log |-> printed ]
  ELSE
    [ ret |-> "False", attempts |-> retry_count + 1,
      log |-> printed \cup { "PageFailedToLoad" } ]

\* load_page_with_retries: outs[i] is what the i-th driver.get would do.
\* The result is True, False or a WebDriverException raised to the caller,
\* with the number of driver.get calls made and the lines printed.
RECURSIVE LoadLoop(_, _, _, _)
LoadLoop(outs, retries, retry_count, printed) ==
  IF ~(retry_count < retries) THEN
    [ ret |-> "False", attempts |-> retry_count, log |-> printed ]
  ELSE IF outs[retry_count + 1] \in Returned THEN
    [ ret |-> "True", attempts |-> retry_count + 1, log |-> printed ]
  ELSE IF outs[retry_count + 1] = "error" THEN
    [ ret |-> "raise", attempts |-> retry_count + 1, log |-> printed ]
  ELSE IF retry_count + 1 < retries THEN
    LoadLoop(outs, retries, retry_count + 1, printed \cup { "TimeoutRetrying" })
  ELSE
    [ ret |-> "False", attempts |-> retry_count + 1,
      log |-> printed \cup { "PageFailedToLoad" } ]

load_page_with_retries(outs, retries) == LoadLoop(outs, retries, 0, {})

AttemptSeqs == [1..max_retries -> AttemptOutcomes]

\* ------------------------------------------------------------ the sink
\* What requests.post does: a response with a status code, or an exception
\* (requests.exceptions.RequestException, or any other Exception).
Statuses == { 200, 201, 202, 204, 299, 500 }
NoResp == [ kind |-> "none", status |-> 0 ]
Responses ==
  { [ kind |-> "status", status |-> c ] : c \in Statuses }
    \cup { [ kind |-> "RequestException", status |-> 0 ],
           [ kind |-> "Exception", status |-> 0 ] }

\* if resp.status_code in (200, 201, 204)
InsertOk(resp) == resp.kind = "status" /\ resp.status \in OkStatuses

\* What driver.page_source / BeautifulSoup(...) does: returns the parsed
\* page, or raises.
SourceOutcomes == { "ok", "TimeoutException", "WebDriverException", "Exception" }

\* ------------------------------------------------------------ state
VARIABLES
  pc,                 \* where the program is
  SUPABASE_URL,       \* whether the environment sets it (non-empty)
  SUPABASE_ANON_KEY,  \* whether the environment sets it (non-empty)
  CHALLENGE_LOOKBACK_DAYS,
  clock,              \* the calendar day datetime.today() returns now
  ticks,              \* midnights passed since the run started
  driver,             \* main's driver: "None", "open" or "quit"
  end_date,           \* league: today
  current_date,       \* league loop variable
  payload,            \* league: the list built from the rows of current_date
  total_league_rows_inserted,
  challenge_end,
  current_day,        \* challenge loop variable
  total_challenge_rows_inserted,
  template,           \* scrape_challenge_for_date: index of the template at hand
  records,            \* challenge: the list built from the rows for current_day
  tried,              \* what the templates tried for current_day have given
  processed,          \* per kind, the date_str of every loop iteration begun
  step,               \* the kind and date_str the last step worked on
  gets,               \* the driver.get outcomes of the last step's page load
  loadret,            \* what load_page_with_retries did in the last step
  page,               \* the page parsed in the last step
  batch,              \* the list posted in the last step
  posts,              \* number of requests.post calls in the last step
  resp,               \* what requests.post did in the last step
  slept,              \* whether main's time.sleep(1) ran in the last step
  log,                \* the lines printed in the last step
  quits               \* number of driver.quit() calls

envvars == << SUPABASE_URL, SUPABASE_ANON_KEY, CHALLENGE_LOOKBACK_DAYS >>
leaguevars == << end_date, current_date, payload, total_league_rows_inserted >>
challengevars ==
  << challenge_end, current_day, total_challenge_rows_inserted, template, records, tried >>
obsvars == << step, gets, loadret, page, batch, posts, resp, slept, log >>
vars ==
  << pc, envvars, clock, ticks, driver, quits, leaguevars, challengevars,
     processed, obsvars >>

NoStep == [ kind |-> "none", date |-> << 0, 0, 0 >> ]

\* What the last step did: st the date at hand, g and lr the page load,
\* pg the page parsed, b, n and r the post, sl the pacing sleep, lg the
\* lines printed.
Observe(st, g, lr, pg, b, n, r, sl, lg) ==
  /\ step' = st /\ gets' = g /\ loadret' = lr /\ page' = pg /\ batch' = b
  /\ posts' = n /\ resp' = r /\ slept' = sl /\ log' = lg

\* A step that loads no page, parses none and posts nothing.
Quiet(st, sl, lg) == Observe(st, << >>, "none", NoPage, << >>, 0, NoResp, sl, lg)

Init ==
  /\ pc = "load"
  /\ SUPABASE_URL \in BOOLEAN
  /\ SUPABASE_ANON_KEY \in BOOLEAN
  /\ CHALLENGE_LOOKBACK_DAYS \in { 1, MaxLookback }
  /\ clock = StartDay
  /\ ticks = 0
  /\ driver = "None"
  /\ quits = 0
  /\ end_date = 0 /\ current_date = 0 /\ payload = << >>
  /\ total_league_rows_inserted = 0
  /\ challenge_end = 0 /\ current_day = 0 /\ total_challenge_rows_inserted = 0
  /\ template = 1 /\ records = << >> /\ tried = "none"
  /\ processed = [ k \in { "League", "Challenge" } |-> << >> ]
  /\ step = NoStep /\ gets = << >> /\ loadret = "none" /\ page = NoPage
  /\ batch = << >> /\ posts = 0 /\ resp = NoResp /\ slept = FALSE /\ log = {}

\* As ModuleLoad, with "and" for the "or" of the configuration check.
ModuleLoad_And ==
  /\ pc = "load"
  /\ pc' = IF ~SUPABASE_URL /\ ~SUPABASE_ANON_KEY THEN "config_error" ELSE "main"
  /\ Quiet(NoStep, FALSE, {})
  /\ UNCHANGED << envvars, clock, ticks, driver, quits, leaguevars, challengevars,
                  processed >>

\* Lines 17-21: the module-level configuration check.
ModuleLoad ==
  /\ pc = "load"
  /\ pc' = IF ~SUPABASE_URL \/ ~SUPABASE_ANON_KEY THEN "config_error" ELSE "main"
  /\ Quiet(NoStep, FALSE, {})
  /\ UNCHANGED << envvars, clock, ticks, driver, quits, leaguevars, challengevars,
                  processed >>

\* today - timedelta(days=6)
LeagueStart(today) == today - LeagueBackDays

\* Lines 189-203: driver = None; setup_driver() returns a driver or raises;
\* then the clock is read and the league window is set.
SetupDriver ==
  /\ pc = "main"
  /\ \E ok \in BOOLEAN :
       IF ok
       THEN /\ pc' = "league"
            /\ driver' = "open"
            /\ end_date' = clock
            /\ current_date' = LeagueStart(clock)
            /\ total_league_rows_inserted' = 0
            /\ Quiet(NoStep, FALSE, { "DriverInitialized" })
       ELSE /\ pc' = "raised"
            /\ Quiet(NoStep, FALSE, { "FatalError" })
            /\ UNCHANGED << driver, end_date, current_date, total_league_rows_inserted >>
  /\ UNCHANGED << envvars, clock, ticks, quits, payload, challengevars, processed >>

\* As NextDay, with the date left as it is.
NextDay_Stay(d) == d

\* current_date += timedelta(days=1) and current_day += timedelta(days=1)
NextDay(d) == d + 1

\* "while current_date <= end_date" and "while current_day <= challenge_end"
InWindow(d, last) == d <= last

\* Lines 205-211: the league loop test holds; an iteration begins.  The
\* iteration assigns payload anew (line 238) before any use, so the list of
\* the iteration before is dropped here.
LeagueHead ==
  /\ pc = "league"
  /\ InWindow(current_date, end_date)
  /\ pc' = "league_load"
  /\ payload' = << >>
  /\ processed' = [ processed EXCEPT !["League"] = Append(@, DateStr(current_date)) ]
  /\ Quiet([ kind |-> "League", date |-> DateStr(current_date) ], FALSE,
           { "LeagueScrapingUrl" })
  /\ UNCHANGED << envvars, clock, ticks, driver, quits, end_date, current_date,
                  total_league_rows_inserted, challengevars >>

\* The except clause (lines 286-291) that catches an exception of the
\* league try block, by the line it prints.
LeagueExcept(exc) ==
  CASE exc = "TimeoutException" -> { "LeagueTimeoutSkipping" }
    [] exc = "WebDriverException" -> { "LeagueWebDriverError" }
    [] OTHER -> { "LeagueUnexpectedError" }

\* Lines 213-217, 286-294: load_page_with_retries for the league url.  A
\* raised WebDriverException is caught at line 288 and lines 293-294 run;
\* "not ok" advances the date and continues.
LeagueLoad ==
  /\ pc = "league_load"
  /\ \E outs \in AttemptSeqs :
       LET load == load_page_with_retries(outs, max_retries)
           g == SubSeq(outs, 1, load.attempts)
       IN  CASE load.ret = "raise" ->
                  /\ Observe(step, g, "raise", NoPage, << >>, 0, NoResp, TRUE,
                             load.log \cup LeagueExcept("WebDriverException"))
                  /\ current_date' = NextDay(current_date)
                  /\ pc' = "league"
             [] load.ret = "False" ->
                  /\ Observe(step, g, "False", NoPage, << >>, 0, NoResp, FALSE, load.log)
                  /\ current_date' = NextDay(current_date)
                  /\ pc' = "league"
             [] load.ret = "True" ->
                  /\ Observe(step, g, "True", NoPage, << >>, 0, NoResp, FALSE, load.log)
                  /\ current_date' = current_date
                  /\ pc' = "league_parse"
  /\ UNCHANGED << envvars, clock, ticks, driver, quits, end_date, payload,
                  total_league_rows_inserted, challengevars, processed >>

\* Lines 219-265, 286-294: the page source is parsed and payload is built.
\* An exception is caught by one of the except clauses; a missing table or
\* tbody advances the date, sleeps and continues.
LeagueParse ==
  /\ pc = "league_parse"
  /\ \E src \in SourceOutcomes :
       IF src # "ok"
       THEN /\ Quiet(step, TRUE, LeagueExcept(src))
            /\ current_date' = NextDay(current_date)
            /\ pc' = "league"
            /\ UNCHANGED payload
       ELSE \E pg \in Pages :
              IF pg.table = "absent" \/ pg.table = "nobody"
              THEN /\ Observe(step, << >>, "none", pg, << >>, 0, NoResp, TRUE,
                              IF pg.table = "absent" THEN { "LeagueTableNotFound" }
                              ELSE { "LeagueTbodyNotFound" })
                   /\ current_date' = NextDay(current_date)
                   /\ pc' = "league"
                   /\ UNCHANGED payload
              ELSE /\ Observe(step, << >>, "none", pg, << >>, 0, NoResp, FALSE,
                              { "LeagueFoundRows" })
                   /\ payload' = LeaguePayload(pg.rows, step.date)
                   /\ current_date' = current_date
                   /\ pc' = "league_post"
  /\ UNCHANGED << envvars, clock, ticks, driver, quits, end_date,
                  total_league_rows_inserted, challengevars, processed >>

\* As ShouldPost, with "if payload is not None:" for "if payload:".
ShouldPost_NotNone(list) == TRUE

\* "if payload:" (line 267): whether main posts the league payload.
ShouldPost(list) == list # << >>

\* The line printed for what requests.post did in the league try block:
\* a non-success status at line 280, any exception at line 291.
LeaguePostLog(r) ==
  IF r.kind = "status"
  THEN IF InsertOk(r) THEN { "LeagueInsertOk" } ELSE { "LeagueInsertFailed" }
  ELSE { "LeagueUnexpectedError" }

\* As LeaguePost, with "total_league_rows_inserted += 1".
LeaguePost_CountsOne ==
  /\ pc = "league_post"
  /\ IF ShouldPost(payload)
     THEN \E r \in Responses :
            /\ InsertOk(r) => total_league_rows_inserted + Len(payload) <= MaxInserted
            /\ Observe(step, << >>, "none", NoPage, payload, 1, r, TRUE,
                       { "LeagueAttemptInsert" } \cup LeaguePostLog(r))
            /\ total_league_rows_inserted' =
                 IF InsertOk(r) THEN total_league_rows_inserted + 1
                 ELSE total_league_rows_inserted
     ELSE /\ Quiet(step, TRUE, { "LeagueNoValidRows" })
          /\ UNCHANGED total_league_rows_inserted
  /\ current_date' = NextDay(current_date)
  /\ pc' = "league"
  /\ UNCHANGED << envvars, clock, ticks, driver, quits, end_date, payload,
                  challengevars, processed >>

\* Lines 267-294: the payload is posted if it is not empty; then the pacing
\* sleep and the next date.
LeaguePost ==
  /\ pc = "league_post"
  /\ IF ShouldPost(payload)
     THEN \E r \in Responses :
            /\ InsertOk(r) => total_league_rows_inserted + Len(payload) <= MaxInserted
            /\ Observe(step, << >>, "none", NoPage, payload, 1, r, TRUE,
                       { "LeagueAttemptInsert" } \cup LeaguePostLog(r))
            /\ total_league_rows_inserted' =
                 IF InsertOk(r) THEN total_league_rows_inserted + Len(payload)
                 ELSE total_league_rows_inserted
     ELSE /\ Quiet(step, TRUE, { "LeagueNoValidRows" })
          /\ UNCHANGED total_league_rows_inserted
  /\ current_date' = NextDay(current_date)
  /\ pc' = "league"
  /\ UNCHANGED << envvars, clock, ticks, driver, quits, end_date, payload,
                  challengevars, processed >>

\* Midnight passes while the league loop runs.  The clock is read at line
\* 198 and for the last time at line 303; every moment between the two
\* reads gives the same run, so the tick is taken right before the second.
Midnight ==
  /\ pc = "league"
  /\ ~InWindow(current_date, end_date)
  /\ ticks < MaxTicks
  /\ clock' = clock + 1
  /\ ticks' = ticks + 1
  /\ UNCHANGED << pc, envvars, driver, quits, leaguevars, challengevars, processed,
                  obsvars >>

\* challenge_start = challenge_end - timedelta(days=CHALLENGE_LOOKBACK_DAYS - 1)
ChallengeStart(last, lookback) == last - (lookback - 1)

\* Lines 296-312: the league loop is over; the clock is read again and the
\* challenge window is set.  payload is not used again and is dropped.
LeaguesDone ==
  /\ pc = "league"
  /\ ~InWindow(current_date, end_date)
  /\ pc' = "challenge"
  /\ payload' = << >>
  /\ challenge_end' = clock
  /\ current_day' = ChallengeStart(clock, CHALLENGE_LOOKBACK_DAYS)
  /\ total_challenge_rows_inserted' = 0
  /\ Quiet(NoStep, FALSE, { "LeaguesComplete", "ChallengesRange" })
  /\ UNCHANGED << envvars, clock, ticks, driver, quits, end_date, current_date,
                  total_league_rows_inserted, template, records, tried, processed >>

\* Lines 314-318, 123: the challenge loop test holds; an iteration begins
\* and scrape_challenge_for_date starts with the first template.  The
\* iteration assigns records anew (line 318) before any use, so the list of
\* the iteration before is dropped here.
ChallengeHead ==
  /\ pc = "challenge"
  /\ InWindow(current_day, challenge_end)
  /\ pc' = "challenge_load"
  /\ template' = 1
  /\ tried' = "none"
  /\ records' = << >>
  /\ processed' = [ processed EXCEPT !["Challenge"] = Append(@, DateStr(current_day)) ]
  /\ Quiet([ kind |-> "Challenge", date |-> DateStr(current_day) ], FALSE,
           { "ChallengeProcessing" })
  /\ UNCHANGED << envvars, clock, ticks, driver, quits, leaguevars, challenge_end,
                  current_day, total_challenge_rows_inserted >>

\* What the templates tried for a date have given, after one more gave
\* class: "found" or "raise" when that ends the search, else the class if
\* all gave it and "mixed" otherwise.
Tried(sofar, class) ==
  IF class \in { "found", "raise" } \/ sofar \in { "none", class } THEN class
  ELSE "mixed"

\* scrape_challenge_for_date, a "continue" of "for template in ..." or the
\* fall through after "if records:": the next template is tried, or after
\* the last one [] is returned and main takes lines 320-324.
ChallengeContinue(g, lr, lg, class) ==
  /\ tried' = Tried(tried, class)
  /\ IF template < NumTemplates
     THEN /\ template' = template + 1
          /\ pc' = "challenge_load"
          /\ Observe(step, g, lr, NoPage, << >>, 0, NoResp, FALSE, lg)
          /\ UNCHANGED << current_day, records >>
     ELSE /\ template' = template
          /\ pc' = "challenge"
          /\ records' = << >>
          /\ current_day' = NextDay(current_day)
          /\ Observe(step, g, lr, NoPage, << >>, 0, NoResp, TRUE,
                     lg \cup { "NoValidChallengePage", "NoChallengeData" })

\* An exception leaves scrape_challenge_for_date, which main calls outside
\* any per-date try: main's "except Exception" (lines 356-358) prints it
\* and raises it again.
ChallengeRaise(g, lr, lg) ==
  /\ pc' = "raised"
  /\ tried' = Tried(tried, "raise")
  /\ Observe(step, g, lr, NoPage, << >>, 0, NoResp, FALSE, lg \cup { "FatalError" })
  /\ UNCHANGED << template, current_day, records >>

\* Lines 124-129: load_page_with_retries for the template at hand.
ChallengeLoad ==
  /\ pc = "challenge_load"
  /\ \E outs \in AttemptSeqs :
       LET load == load_page_with_retries(outs, max_retries)
           g == SubSeq(outs, 1, load.attempts)
       IN  CASE load.ret = "raise" -> ChallengeRaise(g, "raise", load.log)
             [] load.ret = "False" ->
                  ChallengeContinue(g, "False", load.log, "failed")
             [] load.ret = "True" ->
                  /\ pc' = "challenge_parse"
                  /\ Observe(step, g, "True", NoPage, << >>, 0, NoResp, FALSE, load.log)
                  /\ UNCHANGED << template, current_day, records, tried >>
  /\ UNCHANGED << envvars, clock, ticks, driver, quits, leaguevars, challenge_end,
                  total_challenge_rows_inserted, processed >>

\* As TemplateWins, with "if records is not None:" for "if records:".
TemplateWins_NotNone(list) == TRUE

\* "if records:" (line 178): whether scrape_challenge_for_date returns the
\* records of the template at hand.
TemplateWins(list) == list # << >>

\* Lines 131-180: the page source of the template at hand is parsed and its
\* records are built.
ChallengeParse ==
  /\ pc = "challenge_parse"
  /\ \E src \in SourceOutcomes :
       IF src # "ok"
       THEN ChallengeRaise(<< >>, "none", {})
       ELSE \E pg \in Pages :
              IF pg.table = "absent" THEN
                ChallengeContinue(<< >>, "none", { "ChallengeNoTable" }, "noevent")
              ELSE IF pg.table = "nobody" THEN
                ChallengeContinue(<< >>, "none", { "ChallengeNoTbody" }, "noevent")
              ELSE IF pg.rows = << >> THEN
                ChallengeContinue(<< >>, "none", { "ChallengeTableEmpty" }, "noevent")
              ELSE
                LET recs == ChallengeRecords(pg.rows, step.date)
                IN  IF TemplateWins(recs)
                    THEN /\ pc' = "challenge_post"
                         /\ records' = recs
                         /\ tried' = Tried(tried, "found")
                         /\ Observe(step, << >>, "none", pg, << >>, 0, NoResp, FALSE,
                                    { "ChallengeFound" })
                         /\ UNCHANGED << template, current_day >>
                    ELSE ChallengeContinue(<< >>, "none", {}, "novalid")
  /\ UNCHANGED << envvars, clock, ticks, driver, quits, leaguevars, challenge_end,
                  total_challenge_rows_inserted, processed >>

\* The line printed for what requests.post did in the challenge try block.
ChallengePostLog(r) ==
  IF r.kind = "status"
  THEN IF InsertOk(r) THEN { "ChallengeInsertOk" } ELSE { "ChallengeInsertFailed" }
  ELSE IF r.kind = "RequestException" THEN { "ChallengeNetworkError" }
  ELSE { "ChallengeUnexpectedError" }

\* Lines 320, 326-348: records is not empty and is posted; then the pacing
\* sleep and the next date.
ChallengePost ==
  /\ pc = "challenge_post"
  /\ \E r \in Responses :
       /\ InsertOk(r) =>
            total_league_rows_inserted + total_challenge_rows_inserted + Len(records)
              <= MaxInserted
       /\ Observe(step, << >>, "none", NoPage, records, 1, r, TRUE,
                  { "ChallengeAttemptInsert" } \cup ChallengePostLog(r))
       /\ total_challenge_rows_inserted' =
            IF InsertOk(r) THEN total_challenge_rows_inserted + Len(records)
            ELSE total_challenge_rows_inserted
  /\ current_day' = NextDay(current_day)
  /\ pc' = "challenge"
  /\ UNCHANGED << envvars, clock, ticks, driver, quits, leaguevars, challenge_end,
                  template, records, tried, processed >>

\* Lines 350-354: the challenge loop is over; the run summary is printed.
\* records is not used again and is dropped.
ChallengesDone ==
  /\ pc = "challenge"
  /\ ~InWindow(current_day, challenge_end)
  /\ pc' = "summary"
  /\ records' = << >>
  /\ Quiet(NoStep, FALSE, { "ChallengesComplete", "AllDone" })
  /\ UNCHANGED << envvars, clock, ticks, driver, quits, leaguevars, challenge_end,
                  current_day, total_challenge_rows_inserted, template, tried,
                  processed >>

\* As Finally, with driver.quit() at the end of the try block instead of
\* in a finally block.
Finally_QuitInTry ==
  /\ pc \in { "summary", "raised" }
  /\ pc' = IF pc = "summary" THEN "done" ELSE "failed"
  /\ IF driver = "open" /\ pc = "summary"
     THEN /\ driver' = "quit"
          /\ quits' = quits + 1
          /\ \E ok \in BOOLEAN :
               Quiet(NoStep, FALSE,
                     IF ok THEN { "DriverClosed" } ELSE { "ErrorClosingDriver" })
     ELSE /\ Quiet(NoStep, FALSE, {})
          /\ UNCHANGED << driver, quits >>
  /\ UNCHANGED << envvars, clock, ticks, leaguevars, challengevars, processed >>

\* Lines 359-365: the finally block, after the summary or on the way out of
\* a raised exception; driver.quit() may itself raise, which is caught.
Finally ==
  /\ pc \in { "summary", "raised" }
  /\ pc' = IF pc = "summary" THEN "done" ELSE "failed"
  /\ IF driver = "open"
     THEN /\ driver' = "quit"
          /\ quits' = quits + 1
          /\ \E ok \in BOOLEAN :
               Quiet(NoStep, FALSE,
                     IF ok THEN { "DriverClosed" } ELSE { "ErrorClosingDriver" })
     ELSE /\ Quiet(NoStep, FALSE, {})
          /\ UNCHANGED << driver, quits >>
  /\ UNCHANGED << envvars, clock, ticks, leaguevars, challengevars, processed >>

Next ==
  \/ ModuleLoad
  \/ SetupDriver
  \/ LeagueHead
  \/ LeagueLoad
  \/ LeagueParse
  \/ LeaguePost
  \/ Midnight
  \/ LeaguesDone
  \/ ChallengeHead
  \/ ChallengeLoad
  \/ ChallengeParse
  \/ ChallengePost
  \/ ChallengesDone
  \/ Finally

Spec == Init /\ [][Next]_vars

\* ====================================================================
\* Properties
\* ====================================================================
\* The lines that report a failure, and those that report a date without
\* an event or without rows to insert.
FailureLines ==
  { "PageFailedToLoad", "LeagueTimeoutSkipping", "LeagueWebDriverError",
    "LeagueUnexpectedError", "LeagueInsertFailed", "ChallengeInsertFailed",
    "ChallengeNetworkError", "ChallengeUnexpectedError", "FatalError" }
NoEventLines ==
  { "LeagueTableNotFound", "LeagueTbodyNotFound", "LeagueNoValidRows",
    "ChallengeNoTable", "ChallengeNoTbody", "ChallengeTableEmpty",
    "NoValidChallengePage", "NoChallengeData" }

\* The final non-empty path segment of a link, read left to right up to
\* the query or fragment: cur is the segment being read, last the latest
\* non-empty segment completed.
RECURSIVE ScanSegments(_, _, _, _)
ScanSegments(link, i, cur, last) ==
  IF i > Len(link) \/ link[i] \in { "?", "#" } THEN
    IF cur # << >> THEN cur ELSE last
  ELSE IF link[i] = "/" THEN
    ScanSegments(link, i + 1, << >>, IF cur # << >> THEN cur ELSE last)
  ELSE
    ScanSegments(link, i + 1, Append(cur, link[i]), last)

FinalSegment(link) == ScanSegments(link, 1, << >>, << >>)

IsNumeric(seg) == seg # << >> /\ \A i \in 1..Len(seg) : seg[i] \in Digits

\* The number a digit string writes.
NumVal(seg) ==
  LET val[i \in 0..Len(seg)] == IF i = 0 THEN 0 ELSE 10 * val[i - 1] + DigitVal(seg[i])
  IN  val[Len(seg)]

\* A valid row: at least 3 cells, a deck link with an href, a numeric id.
ValidRow(row) ==
  /\ row.ncols >= 3
  /\ row.has_a /\ row.has_href
  /\ IsNumeric(FinalSegment(row.href))

\* What a list of records says of the rows it was built from: per record
\* the deck id, the date and the three texts.
Told(list, kind) ==
  [ i \in 1..Len(list) |->
      << IF kind = "League" THEN list[i].id ELSE list[i].deck_id,
         IF kind = "League" THEN list[i].event_date ELSE list[i].date,
         list[i].place, list[i].deck_name, list[i].pilot >> ]

\* One entry per valid row of a table, in table order.
Expected(rows, date_str) ==
  LET v == SelectSeq(rows, ValidRow)
  IN  [ i \in 1..Len(v) |->
          << NumVal(FinalSegment(v[i].href)), date_str, v[i].place, v[i].deck_name,
             v[i].pilot >> ]

\* C1: no per-date failure terminates the run: an exception reaches main's
\* outer handler (and ends the run without the summary) only when it comes
\* from setup_driver, that is before any driver exists and before any date.
C1_OnlySetupErrorEndsRun ==
  pc = "raised" => driver = "None" /\ processed["League"] = << >>

C2_State ==
  /\ pc = "challenge_post" =>
       /\ page.table = "rows"
       /\ Told(records, "Challenge") = Expected(page.rows, DateStr(current_day))
       /\ records # << >> /\ tried = "found"
  /\ step.kind = "Challenge" /\ tried = "found" =>
       /\ pc \in { "challenge_post", "challenge" }
       /\ pc = "challenge" => posts = 1 /\ batch = records /\ batch # << >>
  /\ pc \in { "challenge_load", "challenge_parse" } =>
       /\ template \in 1..NumTemplates
       /\ template = 1 <=> tried = "none"
       /\ tried \in { "none", "failed", "noevent", "novalid", "mixed" }

C2_Step ==
  template' # template =>
    \/ template' = template + 1 /\ pc' = "challenge_load" /\ current_day' = current_day
    \/ template' = 1 /\ pc' = "challenge_load" /\ pc = "challenge"

C3_TimeoutIsFailureNotNoEvent ==
  /\ step.kind = "League" /\ loadret = "False" =>
       /\ "PageFailedToLoad" \in log /\ log \cap NoEventLines = {}
       /\ posts = 0 /\ pc = "league"
  /\ step.kind = "Challenge" /\ pc = "challenge" /\ tried = "failed" =>
       /\ "PageFailedToLoad" \in log /\ log \cap NoEventLines = {}
       /\ posts = 0

\* C4: a date whose table is absent, has no body or has zero rows (for a
\* challenge date: every template's) is a no-event date: a no-event line
\* is printed, no failure line, and nothing is posted; and no post is ever
\* made with an empty list.
C4_ZeroRowsIsNoEvent ==
  /\ posts > 0 => batch # << >>
  /\ step.kind = "League" /\ page.table \in { "absent", "nobody" } =>
       /\ posts = 0 /\ pc = "league"
       /\ log \cap FailureLines = {} /\ log \cap NoEventLines # {}
  /\ pc = "league_post" /\ page.rows = << >> => payload = << >>
  /\ step.kind = "League" /\ pc = "league" /\ loadret = "none" /\ payload = << >>
       /\ page = NoPage /\ log \cap FailureLines = {} =>
       posts = 0 /\ "LeagueNoValidRows" \in log
  /\ step.kind = "Challenge" /\ pc = "challenge" /\ tried = "noevent" =>
       /\ posts = 0
       /\ log \cap FailureLines = {} /\ "NoChallengeData" \in log

\* A challenge date all of whose templates had no rows has been finished,
\* the last template with an empty table.
C4_Witness ==
  /\ step.kind = "Challenge" /\ pc = "challenge" /\ tried = "noevent"
  /\ "ChallengeTableEmpty" \in log

\* C5: every record of every posted batch has a deck id that is a
\* non-negative integer, the number its deck link's final non-empty path
\* segment writes; a row with a non-numeric segment gives no record.
C5_DeckIdIsFinalSegment ==
  /\ \A i \in 1..Len(batch) :
       IF step.kind = "League"
       THEN /\ batch[i].id >= 0
            /\ IsNumeric(FinalSegment(batch[i].deck_url))
            /\ batch[i].id = NumVal(FinalSegment(batch[i].deck_url))
       ELSE batch[i].deck_id >= 0
  /\ posts > 0 => batch = IF step.kind = "League" THEN payload ELSE records
  /\ pc \in { "league_post", "challenge_post" } =>
       LET list == IF pc = "league_post" THEN payload ELSE records
           told == Told(list, step.kind)
       IN  /\ \A i \in 1..Len(list) :
                \E j \in 1..Len(page.rows) :
                  /\ page.rows[j].has_href
                  /\ IsNumeric(FinalSegment(page.rows[j].href))
                  /\ told[i][1] = NumVal(FinalSegment(page.rows[j].href))
                  /\ told[i][3] = page.rows[j].place
           /\ \A j \in 1..Len(page.rows) :
                ~IsNumeric(FinalSegment(page.rows[j].href)) =>
                  \A i \in 1..Len(list) : list[i].place # page.rows[j].place

\* A batch is about to be posted for a table that also had a row with a
\* link whose final segment is not numeric.
C5_Witness ==
  /\ pc = "league_post" /\ Len(page.rows) = 2 /\ Len(payload) = 1
  /\ \E j \in 1..2 : page.rows[j].has_href /\ ~IsNumeric(FinalSegment(page.rows[j].href))

\* A row with fewer than 3 cells, or whose deck-name cell has no link target.
ShortOrUnlinked(row) == row.ncols < 3 \/ ~row.has_a \/ ~row.has_href

\* C6: a row with fewer than 3 cells, or whose deck-name cell carries no
\* link target, gives no record in the list built for its date, and the
\* list is what is posted; for league and for challenge dates.
C6_ShortOrUnlinkedRowExcluded ==
  /\ pc \in { "league_post", "challenge_post" } =>
       LET list == IF pc = "league_post" THEN payload ELSE records
           kept == { j \in 1..Len(page.rows) : ~ShortOrUnlinked(page.rows[j]) }
       IN  /\ \A j \in 1..Len(page.rows) :
                ShortOrUnlinked(page.rows[j]) =>
                  \A i \in 1..Len(list) : list[i].place # page.rows[j].place
           /\ Len(list) <= Cardinality(kept)
  /\ posts > 0 /\ step.kind = "League" => batch = payload
  /\ posts > 0 /\ step.kind = "Challenge" => batch = records

\* A challenge list is about to be posted for a table that had a valid row
\* and a row that is short or unlinked.
C6_Witness ==
  /\ pc = "challenge_post" /\ Len(page.rows) = 2 /\ Len(records) = 1
  /\ \E j \in 1..2 : ShortOrUnlinked(page.rows[j])

\* C7: the list built for a date holds exactly one record for each valid
\* row of the date's table, in table order, and nothing else; it is posted
\* whenever it is not empty, and as it was built.
C7_BatchIsValidRowsInOrder ==
  /\ pc = "league_post" =>
       /\ step = [ kind |-> "League", date |-> DateStr(current_date) ]
       /\ Told(payload, "League") = Expected(page.rows, step.date)
  /\ pc = "challenge_post" =>
       /\ step = [ kind |-> "Challenge", date |-> DateStr(current_day) ]
       /\ Told(records, "Challenge") = Expected(page.rows, step.date)
  /\ step.kind = "League" /\ pc = "league" /\ payload # << >> =>
       posts = 1 /\ batch = payload
  /\ step.kind = "Challenge" /\ pc = "challenge" /\ records # << >> =>
       posts = 1 /\ batch = records
  /\ posts > 0 => batch = IF step.kind = "League" THEN payload ELSE records

\* A league list was built from a table whose first row is invalid and
\* whose second row is valid.
C7_Witness ==
  /\ pc = "league_post" /\ Len(page.rows) = 2 /\ Len(payload) = 1
  /\ ~ValidRow(page.rows[1]) /\ ValidRow(page.rows[2])

\* C8: at most one post is made per kind and date: a step makes at most
\* one post, only the post step of a date's iteration makes one, for that
\* date, and it moves the loop to the next date whatever the sink did; the
\* loop dates never go back and the league loop is not entered again.
C8_Step ==
  /\ posts' <= 1
  /\ pc \notin { "league_post", "challenge_post" } =>
       posts' = 0 \/ UNCHANGED << posts, batch, resp, step >>
  /\ pc = "league_post" =>
       /\ step' = step /\ step.kind = "League" /\ step.date = DateStr(current_date)
       /\ current_date' = current_date + 1 /\ pc' = "league"
  /\ pc = "challenge_post" =>
       /\ step' = step /\ step.kind = "Challenge" /\ step.date = DateStr(current_day)
       /\ current_day' = current_day + 1 /\ pc' = "challenge"
  /\ current_date' >= current_date /\ current_day' >= current_day
  /\ pc \in { "challenge", "challenge_load", "challenge_parse", "challenge_post",
              "summary", "raised", "done", "failed" } =>
       pc' \notin { "main", "league", "league_load", "league_parse", "league_post" }

C8_OnePostPerKindAndDate == [][C8_Step]_vars

\* The sink failed for the first of two challenge dates and the loop is at
\* the next date.
C8_Witness ==
  /\ pc = "challenge" /\ posts = 1 /\ resp.kind = "status" /\ resp.status = 500
  /\ CHALLENGE_LOOKBACK_DAYS = 2 /\ Len(processed["Challenge"]) = 1

\* C9: a post is treated as successful (the insert-ok line, its rows
\* counted) exactly for a response status in 200..299.
C9_Any2xxIsSuccess ==
  posts = 1 /\ resp.kind = "status" =>
    (resp.status \in 200..299 <=> log \cap { "LeagueInsertOk", "ChallengeInsertOk" } # {})

\* The n consecutive dates ending at day last, oldest first.
Window(last, n) == [ i \in 1..n |-> DateStr(last - n + i) ]

IsPrefix(s, t) == Len(s) <= Len(t) /\ s = SubSeq(t, 1, Len(s))

\* C10: by the end of a run that got its driver, the dates processed for
\* League are exactly the 7 consecutive dates ending at today, and the dates
\* processed for Challenge exactly the CHALLENGE_LOOKBACK_DAYS consecutive
\* dates ending at today, oldest first, today being the day each window's
\* clock read gave.
C10_ProcessedDatesAreWindows ==
  pc \in { "done", "failed" } /\ driver # "None" =>
    /\ processed["League"] = Window(clock - ticks, 7)
    /\ processed["Challenge"] = Window(clock, CHALLENGE_LOOKBACK_DAYS)

\* The windows as the loops walk them: the dates processed are at any time
\* the first dates of the window, and the whole window once the loop has
\* left by its condition; today = 2024-03-10 gives 2024-03-04..2024-03-10.
WindowsWalkedInOrder ==
  /\ IsPrefix(processed["League"], Window(clock - ticks, 7))
  /\ pc \notin { "load", "config_error", "main", "raised", "failed", "league",
                 "league_load", "league_parse", "league_post" } =>
       /\ processed["League"] = Window(clock - ticks, 7)
       /\ IsPrefix(processed["Challenge"], Window(clock, CHALLENGE_LOOKBACK_DAYS))
       /\ clock - ticks = 70 =>
            processed["League"] =
              << << 2024, 3, 4 >>, << 2024, 3, 5 >>, << 2024, 3, 6 >>, << 2024, 3, 7 >>,
                 << 2024, 3, 8 >>, << 2024, 3, 9 >>, << 2024, 3, 10 >> >>
  /\ pc \in { "summary", "done" } =>
       /\ processed["Challenge"] = Window(clock, CHALLENGE_LOOKBACK_DAYS)
       /\ clock = 70 /\ CHALLENGE_LOOKBACK_DAYS = 2 =>
            processed["Challenge"] = << << 2024, 3, 9 >>, << 2024, 3, 10 >> >>

\* C11: when SUPABASE_URL or SUPABASE_ANON_KEY is missing the run fails
\* before any date: it never leaves the module-level check, no driver is
\* made, no date is begun, no page is fetched and nothing is posted.
C11_MissingConfigStopsBeforeDates ==
  ~SUPABASE_URL \/ ~SUPABASE_ANON_KEY =>
    /\ pc \in { "load", "config_error" }
    /\ driver = "None" /\ quits = 0
    /\ processed["League"] = << >> /\ processed["Challenge"] = << >>
    /\ step = NoStep /\ gets = << >> /\ loadret = "none"
    /\ posts = 0 /\ batch = << >>

\* The check has failed with only the key missing.
C11_Witness == pc = "config_error" /\ SUPABASE_URL /\ ~SUPABASE_ANON_KEY

\* C12: the page fetcher never raises to its caller: when driver.get
\* raises a non-timeout WebDriverException, load_page_with_retries returns
\* failure at once.
C12_FetcherNeverRaises ==
  /\ loadret # "raise"
  /\ gets # << >> /\ gets[Len(gets)] = "error" => loadret = "False"

\* C13: load_page_with_retries makes at most 2 driver.get attempts for one
\* url and always comes to an end; it makes no attempt after one that did
\* not time out, returns True on the first attempt that returns, and
\* returns False exactly when both attempts timed out.
C13_AtMostMaxRetriesAttempts ==
  /\ loadret \in { "none", "True", "False", "raise" }
  /\ loadret = "none" <=> gets = << >>
  /\ Len(gets) <= 2
  /\ \A i \in 1..Len(gets) : i < Len(gets) => gets[i] = "timeout"
  /\ loadret = "True" <=> gets # << >> /\ gets[Len(gets)] \in { "ok", "status404" }
  /\ loadret = "False" <=> Len(gets) = 2 /\ \A i \in 1..2 : gets[i] = "timeout"

\* The first attempt timed out and the second returned.
C13_Witness == loadret = "True" /\ gets = << "timeout", "ok" >>

\* The run state a program point belongs to.
Phase(p) ==
  CASE p \in { "load", "main" } -> "Idle"
    [] p \in { "league", "league_load", "league_parse", "league_post" } -> "RunningLeagues"
    [] p \in { "challenge", "challenge_load", "challenge_parse", "challenge_post" } ->
         "RunningChallenges"
    [] p \in { "summary", "done" } -> "Done"
    [] OTHER -> "Failed"

\* C14: a run moves Idle -> RunningLeagues -> RunningChallenges -> Done
\* (Idle -> Failed on a setup error) and in no other way; every way through
\* a loop body moves the date on by exactly one day, the date changes
\* nowhere else in the loop, and a date is begun only when the one before
\* is complete.
C14_Step ==
  /\ Phase(pc') # Phase(pc) =>
       << Phase(pc), Phase(pc') >> \in
         { << "Idle", "RunningLeagues" >>, << "RunningLeagues", "RunningChallenges" >>,
           << "RunningChallenges", "Done" >>, << "Idle", "Failed" >> }
  /\ Phase(pc) = "RunningLeagues" /\ Phase(pc') = "RunningLeagues" =>
       current_date' = IF pc # "league" /\ pc' = "league" THEN current_date + 1
                       ELSE current_date
  /\ Phase(pc) = "RunningChallenges" /\ Phase(pc') = "RunningChallenges" =>
       current_day' = IF pc # "challenge" /\ pc' = "challenge" THEN current_day + 1
                      ELSE current_day
  /\ processed' # processed =>
       \/ /\ pc = "league" /\ pc' = "league_load"
          /\ processed' = [ processed EXCEPT !["League"] = Append(@, DateStr(current_date)) ]
          /\ processed["Challenge"] = << >>
       \/ /\ pc = "challenge" /\ pc' = "challenge_load"
          /\ processed' = [ processed EXCEPT !["Challenge"] = Append(@, DateStr(current_day)) ]

C14_RunMovesThroughPhasesInOrder == [][C14_Step]_vars

\* C15: the pacing delay is applied between every two consecutive date
\* iterations whatever the earlier one's outcome: when an iteration has
\* ended and another date follows, main's time.sleep(1) has run.
C15_PacingDelayEveryIteration ==
  /\ step.kind = "League" /\ pc = "league" /\ current_date <= end_date => slept
  /\ step.kind = "Challenge" /\ pc = "challenge" /\ current_day <= challenge_end => slept

\* C16: the rows-inserted counter of a kind is the sum of the sizes of
\* that kind's batches posted with success so far: both counters are 0
\* before any date; a post reported as inserted adds the size of its batch
\* to the counter of its kind; a post answered by a non-2xx status or by an
\* exception, and every step without a post, leave the counters as they are.
C16_Start ==
  pc \in { "load", "config_error", "main" } =>
    total_league_rows_inserted = 0 /\ total_challenge_rows_inserted = 0

C16_Step ==
  LET inserted(at, line) == pc = at /\ posts' = 1 /\ line \in log'
      failed == \/ posts' = 0
                \/ resp'.kind # "status"
                \/ resp'.status \notin 200..299
  IN  /\ total_league_rows_inserted' =
           IF inserted("league_post", "LeagueInsertOk")
           THEN total_league_rows_inserted + Len(batch')
           ELSE total_league_rows_inserted
      /\ total_challenge_rows_inserted' =
           IF inserted("challenge_post", "ChallengeInsertOk")
           THEN total_challenge_rows_inserted + Len(batch')
           ELSE total_challenge_rows_inserted
      /\ failed =>
           UNCHANGED << total_league_rows_inserted, total_challenge_rows_inserted >>
      /\ posts' = 1 /\ pc \in { "league_post", "challenge_post" } =>
           \/ log' \cap { "LeagueInsertOk", "ChallengeInsertOk" } # {}
           \/ log' \cap { "LeagueInsertFailed", "LeagueUnexpectedError",
                          "ChallengeInsertFailed", "ChallengeNetworkError",
                          "ChallengeUnexpectedError" } # {}

C17_Non2xxPageIsFetchFailure ==
  /\ gets # << >> /\ gets[Len(gets)] = "status404" => loadret = "False"
  /\ pc \in { "league_parse", "challenge_parse" } =>
       gets # << >> /\ gets[Len(gets)] # "status404"

\* A link that is absolute: a scheme, then "://".
Absolute(link) ==
  \E n \in 2..(Len(link) - 2) :
    /\ link[n] = ":" /\ link[n + 1] = "/" /\ link[n + 2] = "/"
    /\ \A i \in 1..(n - 1) : link[i] \notin { "/", "?", "#", ":" }

\* C18: the deck_url of a record is the link target of its row made
\* absolute: the site's origin followed by the target when the target is
\* relative, the target as it is when it is absolute.
C18_DeckUrlIsAbsoluteLink ==
  pc = "league_post" =>
    \A i \in 1..Len(payload) :
      \E j \in 1..Len(page.rows) :
        /\ page.rows[j].has_href
        /\ page.rows[j].place = payload[i].place
        /\ payload[i].deck_url =
             IF Absolute(page.rows[j].href) THEN page.rows[j].href
             ELSE Origin \o page.rows[j].href

\* C19: once setup_driver has returned a driver, driver.quit is called
\* exactly once on every way main ends, after the last fetch, and a failure
\* of quit does not change how main ends.
C19_State ==
  /\ quits <= 1
  /\ driver = "None" => quits = 0 /\ pc \in { "load", "config_error", "main", "raised", "failed" }
  /\ driver = "open" => quits = 0 /\ pc \notin { "load", "config_error", "main", "done", "failed" }
  /\ driver = "quit" => quits = 1 /\ pc \in { "done", "failed" }

C19_Step ==
  /\ gets' # << >> /\ gets' # gets => quits' = 0 /\ driver' = "open"
  /\ pc = "summary" => pc' = "done" /\ quits' = 1
  /\ pc = "raised" => pc' = "failed" /\ quits' = IF driver = "open" THEN 1 ELSE 0
  /\ pc \in { "done", "failed" } => FALSE

C19_DriverQuitExactlyOnce == []C19_State /\ [][C19_Step]_vars

\* An exception left the challenge loop, and driver.quit() was called and
\* failed.
C19_Witness ==
  /\ pc = "failed" /\ quits = 1 /\ "ErrorClosingDriver" \in log
  /\ processed["Challenge"] # << >>

\* C20: within one run the league window and the challenge window end on
\* the same calendar date.
C20_WindowsEndSameDay ==
  Phase(pc) \in { "RunningChallenges", "Done" } => challenge_end = end_date

====
